---- MODULE Spec2Model ----
(***************************************************************************)
(* Model of moonworm's code generators:                                    *)
(*   - generators/solidity_interface.py : generate_interface               *)
(*   - generators/brownie.py            : the brownie binding class and    *)
(*                                        its argparse CLI                 *)
(*                                                                         *)
(* Texts.  A Python str is modelled as the sequence of its lexemes: words  *)
(* (identifiers, numbers), and the single characters " ", ",", "(", ")",   *)
(* "[", "]", ";", "\n", "\t".  Concatenation of str is \o on these         *)
(* sequences, the empty str is << >>, and Str flattens a text to one       *)
(* TLA+ string.  Because "[" and "]" are lexemes of one character each and *)
(* no word ends in a bracket, the slice s[-2:] == "[]" of the source is    *)
(* the comparison of the last two lexemes with << "[", "]" >>.             *)
(*                                                                         *)
(* Dicts.  A Python dict is a TLA+ function whose DOMAIN is its key set;   *)
(* d.get(k) is None exactly when k \notin DOMAIN d, d[k] raises KeyError   *)
(* exactly when k \notin DOMAIN d.                                         *)
(***************************************************************************)
EXTENDS Integers, Sequences, FiniteSets, TLC

VARIABLES
    abi,                        \* generate_interface: the ABI entries iterated so far
    interface_body_components,  \* generate_interface: the local list of declarations
    interface_body,             \* generate_interface: the body handed to the template
    pc,                         \* generate_interface: "loop", "returned" or "raised"
    brownie_abi,                \* brownie: the caller's ABI list
    brownie_pc,                 \* brownie: "start", "generated", "instance" or "raised"
    contract_class,             \* brownie: class_functions of the generated class
    cli,                        \* brownie: the generated handlers and subcommands
    self_address,               \* generated class: self.address of the instance
    self_contract,              \* generated class: self.contract of the instance
    outcome,                    \* generated code: what the last call did
    heap,                       \* concurrent requests: the ABI list objects of the callers
    requests,                   \* concurrent requests: locals and position of each call
    spec_inputs,                \* generate_cli_generator: spec["inputs"] of one spec
    subparser_statements        \* generate_cli_generator: the add_argument calls made for it

interface_vars == << abi, interface_body_components, interface_body, pc >>
brownie_vars ==
    << brownie_abi, brownie_pc, contract_class, cli, self_address, self_contract, outcome >>
request_vars == << heap, requests >>
argument_vars == << spec_inputs, subparser_statements >>
vars == << interface_vars, brownie_vars, request_vars, argument_vars >>

\* Python's None.
None == "None"

\* No call of generated code has been made.
NoOutcome ==
    [method |-> None, raised |-> None, returned |-> None, calls |-> << >>,
     trace |-> << >>, args |-> << >>, transaction_config |-> None]

\* No CLI is generated.
NoCli == [handlers |-> << >>, subcommands |-> << >>]

\* The brownie generator is not run.
BrownieIdle ==
    /\ brownie_abi = << >>
    /\ brownie_pc = "idle"
    /\ contract_class = << >>
    /\ cli = NoCli
    /\ self_address = None
    /\ self_contract = None
    /\ outcome = NoOutcome

\* No concurrent generation requests are made.
RequestsIdle ==
    /\ heap = << >>
    /\ requests = << >>

\* The loop over the inputs of a spec is not run.
ArgumentsIdle ==
    /\ spec_inputs = << >>
    /\ subparser_statements = << >>

\* generate_interface is not run.
InterfaceIdle ==
    /\ abi = << >>
    /\ interface_body_components = << >>
    /\ interface_body = << >>
    /\ pc = "idle"

\* Longest ABI list given to generate_interface.
MaxAbiLen == 2

-----------------------------------------------------------------------------
(* Python helpers *)

Has(d, k) == k \in DOMAIN d

\* s[-2:]
PySuffix2(s) == SubSeq(s, IF Len(s) > 2 THEN Len(s) - 1 ELSE 1, Len(s))

\* sep.join(parts)
RECURSIVE Join(_, _)
Join(sep, parts) ==
    IF parts = << >> THEN << >>
    ELSE IF Len(parts) = 1 THEN parts[1]
    ELSE parts[1] \o sep \o Join(sep, Tail(parts))

\* The characters of a text, as one string.
RECURSIVE Str(_)
Str(text) == IF text = << >> THEN "" ELSE text[1] \o Str(Tail(text))

CommaSpace == << ",", " " >>

-----------------------------------------------------------------------------
(* The ABIs the generators are run on *)

Types ==
    { << "address" >>, << "uint256" >>, << "bool" >>, << "string" >>, << "bytes" >>,
      << "bytes32" >>, << "uint256", "[", "]" >>, << "uint256", "[", "3", "]" >> }

P(t, n) == [type |-> t, name |-> << n >>]

\* inputs lists of function entries
FunctionInputLists ==
    { << >> }
    \cup { << P(t, "a") >> : t \in Types }
    \cup { << P(<< "address" >>, "who"), P(t, "b") >> : t \in { << "string" >>, << "uint256" >> } }

\* outputs lists of function entries: named, unnamed ("") and name-less outputs
FunctionOutputLists ==
    { << >> }
    \cup { << P(t, "r") >> : t \in Types }
    \cup { << [type |-> t, name |-> << >>] >> : t \in Types }
    \cup { << [type |-> t] >> : t \in { << "uint256" >>, << "string" >> } }
    \cup { << [type |-> << "uint256" >>, name |-> << >>], P(t, "s") >> :
              t \in { << "bool" >>, << "bytes" >> } }
    \cup { << P(<< "uint256" >>, "x"), [type |-> << "string" >>, name |-> << >>],
              P(<< "address" >>, "z") >> }

Mutabilities == { "pure", "view", "nonpayable", "payable" }

Fn(n, ins, outs, m) ==
    [type |-> "function", name |-> << n >>, inputs |-> ins, outputs |-> outs,
     stateMutability |-> m]

BalanceOf ==
    Fn("balanceOf", << P(<< "address" >>, "who") >>,
       << [type |-> << "uint256" >>, name |-> << >>] >>, "view")

TransferEvent ==
    [type |-> "event", name |-> << "Transfer" >>, anonymous |-> FALSE,
     inputs |-> << [type |-> << "address" >>, name |-> << "from" >>, indexed |-> TRUE],
                   [type |-> << "address" >>, name |-> << "to" >>, indexed |-> TRUE],
                   [type |-> << "uint256" >>, name |-> << "value" >>, indexed |-> FALSE] >>]

WellFormedFunctions ==
    { BalanceOf }
    \cup { Fn("f", << P(<< "address" >>, "who") >>, << P(<< "bool" >>, "ok") >>, m) :
              m \in Mutabilities }
    \cup { Fn("g", ins, << >>, "nonpayable") : ins \in FunctionInputLists }
    \cup { Fn("h", << >>, outs, "view") : outs \in FunctionOutputLists }
    \* a function entry without stateMutability
    \cup { [type |-> "function", name |-> << "k" >>, inputs |-> << >>, outputs |-> << >>] }

WellFormedEvents ==
    { TransferEvent,
      [type |-> "event", name |-> << "Empty" >>, inputs |-> << >>],
      \* a parameter without the indexed field
      [type |-> "event", name |-> << "Log" >>,
       inputs |-> << [type |-> << "string" >>, name |-> << "msg" >>],
                     [type |-> << "uint256", "[", "]" >>, name |-> << "ids" >>,
                      indexed |-> TRUE] >>] }

\* Entries that are no named function or event with complete lists.
IncompleteEntries ==
    { [type |-> "constructor", inputs |-> << P(<< "uint256" >>, "supply") >>,
       stateMutability |-> "nonpayable"],
      [type |-> "fallback", stateMutability |-> "payable"],
      [type |-> "receive", stateMutability |-> "payable"],
      [name |-> << "n" >>, inputs |-> << >>, outputs |-> << >>],
      [type |-> "function", inputs |-> << >>, outputs |-> << >>,
       stateMutability |-> "view"],
      [type |-> "function", name |-> << "noInputs" >>, outputs |-> << >>,
       stateMutability |-> "view"],
      [type |-> "function", name |-> << "noOutputs" >>,
       inputs |-> << P(<< "address" >>, "who") >>, stateMutability |-> "nonpayable"],
      [type |-> "event", inputs |-> << >>],
      [type |-> "event", name |-> << "NoInputs" >>] }

\* Function and event entries with a parameter record lacking its type or name.
MalformedParameterEntries ==
    { Fn("badIn", << [name |-> << "a" >>] >>, << >>, "view"),
      Fn("badIn", << [type |-> << "uint256" >>] >>, << >>, "view"),
      Fn("badOut", << >>, << [name |-> << "r" >>] >>, "view"),
      [type |-> "event", name |-> << "Bad" >>, inputs |-> << [name |-> << "a" >>] >>],
      [type |-> "event", name |-> << "Bad" >>,
       inputs |-> << [type |-> << "uint256" >>, indexed |-> TRUE] >>] }

AbiEntries ==
    WellFormedFunctions \cup WellFormedEvents \cup IncompleteEntries
        \cup MalformedParameterEntries

-----------------------------------------------------------------------------
(* generate_interface, solidity_interface.py:17-98 *)

IsEventEntry(item) ==
    /\ Has(item, "type") /\ item.type = "event"
    /\ Has(item, "name")
    /\ Has(item, "inputs")

IsFunctionEntry(item) ==
    /\ Has(item, "type") /\ item.type = "function"
    /\ Has(item, "name")
    /\ Has(item, "inputs")
    /\ Has(item, "outputs")

\* arg.get("indexed", False)
Indexed(arg) == IF Has(arg, "indexed") THEN arg.indexed ELSE FALSE

\* Mutant: a parameter without the indexed field counts as indexed.
event_input_component_default_indexed(arg) ==
    LET middle == IF ~Has(arg, "indexed") \/ arg.indexed
                  THEN << " ", "indexed", " " >> ELSE << " " >>
    IN  arg.type \o middle \o arg.name

event_input_component(arg) ==
    LET middle == IF Indexed(arg) THEN << " ", "indexed", " " >> ELSE << " " >>
    IN  arg.type \o middle \o arg.name

\* Mutant: the bytes case of the location test is forgotten.
NeedsMemory_without_bytes(arg) ==
    \/ arg.type = << "string" >>
    \/ PySuffix2(arg.type) = << "[", "]" >>

NeedsMemory(arg) ==
    \/ arg.type = << "string" >>
    \/ arg.type = << "bytes" >>
    \/ PySuffix2(arg.type) = << "[", "]" >>

input_component(arg) ==
    LET input_location == IF NeedsMemory(arg) THEN << " ", "memory", " " >> ELSE << " " >>
    IN  arg.type \o input_location \o arg.name

\* Mutant: the name, and the space before it, is written even when empty.
output_component_always_named(arg) ==
    LET name == << " " >> \o (IF Has(arg, "name") THEN arg.name ELSE << >>)
        output_location == IF NeedsMemory(arg) THEN << " ", "memory" >> ELSE << >>
    IN  arg.type \o name \o output_location

output_component(arg) ==
    LET name == IF Has(arg, "name") /\ arg.name # << >>
                THEN << " " >> \o arg.name ELSE << >>
        output_location == IF NeedsMemory(arg) THEN << " ", "memory" >> ELSE << >>
    IN  arg.type \o name \o output_location

\* Mutant: "pure" is written out like "view".
mutability_with_pure(item) ==
    IF Has(item, "stateMutability")
          /\ item.stateMutability \in { "view", "payable", "pure" }
    THEN << item.stateMutability, " " >>
    ELSE << >>

mutability(item) ==
    IF Has(item, "stateMutability") /\ item.stateMutability = "view"
    THEN << "view", " " >>
    ELSE IF Has(item, "stateMutability") /\ item.stateMutability = "payable"
    THEN << "payable", " " >>
    ELSE << >>

\* The lists built by the three "for arg in ..." loops.
event_inputs(item) ==
    [i \in 1..Len(item.inputs) |-> event_input_component(item.inputs[i])]

function_inputs(item) ==
    [i \in 1..Len(item.inputs) |-> input_component(item.inputs[i])]

function_outputs(item) ==
    [i \in 1..Len(item.outputs) |-> output_component(item.outputs[i])]

\* Mutant: the returns clause is emitted whatever the number of outputs.
returns_string_always(outputs) ==
    << "returns", " ", "(" >> \o Join(CommaSpace, outputs) \o << ")" >>

returns_string(outputs) ==
    IF outputs # << >>
    THEN << "returns", " ", "(" >> \o Join(CommaSpace, outputs) \o << ")" >>
    ELSE << >>

event_body_component(item) ==
    << "event", " " >> \o item.name \o << "(" >>
        \o Join(CommaSpace, event_inputs(item))
        \o << ")", ";" >>

function_body_component(item) ==
    << "function", " " >> \o item.name \o << "(" >>
        \o Join(CommaSpace, function_inputs(item))
        \o << ")", " ", "external", " " >>
        \o mutability(item)
        \o returns_string(function_outputs(item))
        \o << ";" >>

\* arg['type'] or arg['name'] raises KeyError in the branch the entry takes.
RaisesKeyError(item) ==
    \/ /\ IsEventEntry(item)
       /\ \E i \in 1..Len(item.inputs) :
              ~Has(item.inputs[i], "type") \/ ~Has(item.inputs[i], "name")
    \/ /\ ~IsEventEntry(item)
       /\ IsFunctionEntry(item)
       /\ \/ \E i \in 1..Len(item.inputs) :
                 ~Has(item.inputs[i], "type") \/ ~Has(item.inputs[i], "name")
          \/ \E i \in 1..Len(item.outputs) : ~Has(item.outputs[i], "type")

\* Mutant: a declaration is put in front of the list instead of at its end.
generate_interface_item_prepending(item) ==
    /\ pc = "loop"
    /\ Len(abi) < MaxAbiLen
    /\ abi' = Append(abi, item)
    /\ IF RaisesKeyError(item)
       THEN /\ pc' = "raised"
            /\ UNCHANGED interface_body_components
       ELSE /\ pc' = "loop"
            /\ interface_body_components' =
                  IF IsEventEntry(item)
                  THEN << event_body_component(item) >> \o interface_body_components
                  ELSE IF IsFunctionEntry(item)
                  THEN << function_body_component(item) >> \o interface_body_components
                  ELSE interface_body_components
    /\ UNCHANGED interface_body
    /\ UNCHANGED << brownie_vars, request_vars, argument_vars >>

\* One iteration of "for item in abi" (lines 21-86).
generate_interface_item(item) ==
    /\ pc = "loop"
    /\ Len(abi) < MaxAbiLen
    /\ abi' = Append(abi, item)
    /\ IF RaisesKeyError(item)
       THEN /\ pc' = "raised"
            /\ UNCHANGED interface_body_components
       ELSE /\ pc' = "loop"
            /\ interface_body_components' =
                  IF IsEventEntry(item)
                  THEN Append(interface_body_components, event_body_component(item))
                  ELSE IF IsFunctionEntry(item)
                  THEN Append(interface_body_components, function_body_component(item))
                  ELSE interface_body_components
    /\ UNCHANGED interface_body
    /\ UNCHANGED << brownie_vars, request_vars, argument_vars >>

\* textwrap.indent("\n\n".join(components), "\t"): every declaration is one
\* non-blank line and gets the prefix, the blank lines between them do not.
indent(components) ==
    Join(<< "\n", "\n" >>, [i \in 1..Len(components) |-> << "\t" >> \o components[i]])

\* The end of the loop (lines 88-98): the body goes into the template.
generate_interface_return ==
    /\ pc = "loop"
    /\ pc' = "returned"
    /\ interface_body' = indent(interface_body_components)
    /\ UNCHANGED << abi, interface_body_components >>
    /\ UNCHANGED << brownie_vars, request_vars, argument_vars >>

Init ==
    /\ abi = << >>
    /\ interface_body_components = << >>
    /\ interface_body = << >>
    /\ pc = "loop"
    /\ BrownieIdle
    /\ RequestsIdle
    /\ ArgumentsIdle

Next ==
    \/ \E item \in AbiEntries : generate_interface_item(item)
    \/ generate_interface_return

Spec == Init /\ [][Next]_vars

-----------------------------------------------------------------------------
(* brownie.py: the generators of the binding class.

   Generated code is modelled as data: a FunctionDef is a record with the
   function's name, its parameters and its body, a sequence of statements in
   source order.  Exec runs a body the way Python does, statement after
   statement, until one raises or returns. *)

\* Most function entries in an ABI handed to the brownie generators.
MaxFunctions == 2

ConstructorEntry ==
    [type |-> "constructor", inputs |-> << P(<< "uint256" >>, "supply") >>,
     stateMutability |-> "nonpayable"]

\* A function entry without stateMutability.
NoMutabilityFunction ==
    [type |-> "function", name |-> << "k" >>, inputs |-> << >>, outputs |-> << >>]

\* A function entry whose stateMutability is none of the four known values.
UnrecognizedMutabilityFunction ==
    [type |-> "function", name |-> << "u" >>, inputs |-> << >>, outputs |-> << >>,
     stateMutability |-> "constant"]

BrownieFunctions ==
    { BalanceOf, NoMutabilityFunction, UnrecognizedMutabilityFunction }
    \cup { Fn("f", << P(<< "address" >>, "who") >>, << P(<< "bool" >>, "ok") >>, m) :
              m \in Mutabilities }

RECURSIVE SeqsUpTo(_, _)
SeqsUpTo(S, n) ==
    IF n = 0 THEN { << >> }
    ELSE LET shorter == SeqsUpTo(S, n - 1)
         IN  shorter \cup { Append(q, x) : q \in { t \in shorter : Len(t) = n - 1 }, x \in S }

\* ABIs with and without a constructor entry, with one function at least.
BrownieAbis ==
    LET fs == SeqsUpTo(BrownieFunctions, MaxFunctions) \ { << >> }
    IN  fs \cup { << ConstructorEntry >> \o q : q \in fs }

\* basic.get_constructor: the ABI's constructor entry (its index in the ABI),
\* 0 when the ABI has none and a default constructor stands in.
get_constructor(abi_list) ==
    IF \E i \in 1..Len(abi_list) : abi_list[i].type = "constructor"
    THEN CHOOSE i \in 1..Len(abi_list) :
            /\ abi_list[i].type = "constructor"
            /\ \A j \in 1..(i - 1) : abi_list[j].type # "constructor"
    ELSE 0

DefaultConstructor ==
    [type |-> "constructor", inputs |-> << >>, stateMutability |-> "nonpayable"]

\* entry["name"] = name
WithName(entry, name) ==
    [k \in DOMAIN entry \cup { "name" } |-> IF k = "name" THEN name ELSE entry[k]]

\* The kebab-case form of the identifiers of the ABIs above.
Kebab(identifier) == IF identifier = "balanceOf" THEN "balance-of" ELSE identifier

\* basic.function_spec, as far as the generators below read it: the raw and
\* the Python name, the call path, and the inputs' argument names.
function_spec(function_abi) ==
    [abi |-> Str(function_abi.name),
     method |-> Str(function_abi.name),
     cli |-> Kebab(Str(function_abi.name)),
     transact |-> ~(/\ Has(function_abi, "stateMutability")
                    /\ function_abi.stateMutability \in { "view", "pure" }),
     inputs |-> [i \in 1..Len(function_abi.inputs) |->
                    [method |-> Str(function_abi.inputs[i].name),
                     args |-> Str(function_abi.inputs[i].name),
                     cli |-> "--" \o Kebab(Str(function_abi.inputs[i].name))]]]

SpecParams(spec) == [i \in 1..Len(spec.inputs) |-> [name |-> spec.inputs[i].method]]
SpecParamNames(spec) == [i \in 1..Len(spec.inputs) |-> spec.inputs[i].method]

\* Mutant: __init__ stores the address and never binds the handle.
class_constructor_never_binding ==
    [name |-> "__init__",
     params |-> << [name |-> "self"], [name |-> "contract_address"] >>,
     body |-> << [op |-> "self.contract_name = contract_name"],
                 [op |-> "self.address = contract_address"],
                 [op |-> "self.contract = None"],
                 [op |-> "self.abi = get_abi_json"] >>]

\* lines 41-76: __init__(self, contract_address)
class_constructor ==
    [name |-> "__init__",
     params |-> << [name |-> "self"], [name |-> "contract_address"] >>,
     body |-> << [op |-> "self.contract_name = contract_name"],
                 [op |-> "self.address = contract_address"],
                 [op |-> "self.contract = None"],
                 [op |-> "self.abi = get_abi_json"],
                 [op |-> "if self.address is not None: self.contract = Contract.from_abi"] >>]

\* Mutant: deploy drops the handle before it calls the collaborator.
generate_brownie_constructor_function_resetting(func_object) ==
    LET spec == function_spec(func_object)
    IN  [name |-> "deploy",
         params |-> << [name |-> "self"] >> \o SpecParams(spec)
                       \o << [name |-> "transaction_config"] >>,
         body |-> << [op |-> "self.contract = None"],
                     [op |-> "contract_class = contract_from_build"],
                     [op |-> "deployed_contract = contract_class.deploy",
                      args |-> SpecParamNames(spec) \o << "transaction_config" >>],
                     [op |-> "self.address = deployed_contract.address"],
                     [op |-> "self.contract = deployed_contract"],
                     [op |-> "return deployed_contract.tx"] >>]

\* lines 99-138: deploy(self, inputs..., transaction_config)
generate_brownie_constructor_function(func_object) ==
    LET spec == function_spec(func_object)
    IN  [name |-> "deploy",
         params |-> << [name |-> "self"] >> \o SpecParams(spec)
                       \o << [name |-> "transaction_config"] >>,
         body |-> << [op |-> "contract_class = contract_from_build"],
                     [op |-> "deployed_contract = contract_class.deploy",
                      args |-> SpecParamNames(spec) \o << "transaction_config" >>],
                     [op |-> "self.address = deployed_contract.address"],
                     [op |-> "self.contract = deployed_contract"],
                     [op |-> "return deployed_contract.tx"] >>]

\* lines 141-156: verify_contract(self)
generate_verify_contract ==
    [name |-> "verify_contract",
     params |-> << [name |-> "self"] >>,
     body |-> << [op |-> "self.assert_contract_is_instantiated()"],
                 [op |-> "contract_class = contract_from_build"],
                 [op |-> "contract_class.publish_source"] >>]

\* lines 159-187: assert_contract_is_instantiated(self)
generate_assert_contract_is_instantiated ==
    [name |-> "assert_contract_is_instantiated",
     params |-> << [name |-> "self"] >>,
     body |-> << [op |-> "if self.contract is None: raise Exception"] >>]

\* Mutant: the proxy call is made first and the guard after it.
generate_brownie_contract_function_guard_last(func_object) ==
    LET spec == function_spec(func_object)
    IN  [name |-> spec.method,
         params |-> << [name |-> "self"] >> \o SpecParams(spec)
                       \o << [name |-> "transaction_config"] >>,
         body |-> << [op |-> "return self.contract.function", function |-> spec.abi,
                      args |-> SpecParamNames(spec) \o << "transaction_config" >>],
                     [op |-> "self.assert_contract_is_instantiated()"] >>]

\* Mutant: the test of spec["transact"] is inverted.
generate_brownie_contract_function_inverted(func_object) ==
    LET spec == function_spec(func_object)
    IN  IF ~spec.transact
        THEN [name |-> spec.method,
              params |-> << [name |-> "self"] >> \o SpecParams(spec)
                            \o << [name |-> "transaction_config"] >>,
              body |-> << [op |-> "self.assert_contract_is_instantiated()"],
                          [op |-> "return self.contract.function", function |-> spec.abi,
                           args |-> SpecParamNames(spec) \o << "transaction_config" >>] >>]
        ELSE [name |-> spec.method,
              params |-> << [name |-> "self"] >> \o SpecParams(spec)
                            \o << [name |-> "block_number", default |-> "latest"] >>,
              body |-> << [op |-> "self.assert_contract_is_instantiated()"],
                          [op |-> "return self.contract.function.call", function |-> spec.abi,
                           args |-> SpecParamNames(spec)
                                       \o << "block_identifier=block_number" >>] >>]

\* lines 190-243: one method per ABI function
generate_brownie_contract_function(func_object) ==
    LET spec == function_spec(func_object)
    IN  IF spec.transact
        THEN [name |-> spec.method,
              params |-> << [name |-> "self"] >> \o SpecParams(spec)
                            \o << [name |-> "transaction_config"] >>,
              body |-> << [op |-> "self.assert_contract_is_instantiated()"],
                          [op |-> "return self.contract.function", function |-> spec.abi,
                           args |-> SpecParamNames(spec) \o << "transaction_config" >>] >>]
        ELSE [name |-> spec.method,
              params |-> << [name |-> "self"] >> \o SpecParams(spec)
                            \o << [name |-> "block_number", default |-> "latest"] >>,
              body |-> << [op |-> "self.assert_contract_is_instantiated()"],
                          [op |-> "return self.contract.function.call", function |-> spec.abi,
                           args |-> SpecParamNames(spec)
                                       \o << "block_identifier=block_number" >>] >>]

\* The entries line 89-92 keeps: function["type"] == "function".
FunctionEntries(abi_list) == SelectSeq(abi_list, LAMBDA e : e.type = "function")

\* lines 78-79: the constructor entry, named "constructor" in place.
named_constructor(abi_list) ==
    IF get_constructor(abi_list) = 0
    THEN WithName(DefaultConstructor, << "constructor" >>)
    ELSE WithName(abi_list[get_constructor(abi_list)], << "constructor" >>)

\* lines 81-93: class_functions
generate_brownie_contract_class(abi_list) ==
    << class_constructor,
       generate_brownie_constructor_function(named_constructor(abi_list)),
       generate_assert_contract_is_instantiated,
       generate_verify_contract >>
    \o [i \in 1..Len(FunctionEntries(abi_list)) |->
           generate_brownie_contract_function(FunctionEntries(abi_list)[i])]

\* The positions of class_functions.
DeployAt == 2
FirstFunctionAt == 5

-----------------------------------------------------------------------------
(* brownie.py: the generators of the CLI *)

\* Mutant: the nonce is never copied into the configuration.
generate_get_transaction_config_without_nonce ==
    [name |-> "get_transaction_config",
     params |-> << [name |-> "args"] >>,
     body |-> << [op |-> "signer = network.accounts.load(args.sender, args.password)"],
                 [op |-> "transaction_config = {from: signer}"],
                 [op |-> "if args.flag is not None: transaction_config[key] = args.flag",
                  flag |-> "gas_price", key |-> "gas_price"],
                 [op |-> "if args.flag is not None: transaction_config[key] = args.flag",
                  flag |-> "max_fee_per_gas", key |-> "max_fee"],
                 [op |-> "if args.flag is not None: transaction_config[key] = args.flag",
                  flag |-> "max_priority_fee_per_gas", key |-> "priority_fee"],
                 [op |-> "if args.flag is not None: transaction_config[key] = args.flag",
                  flag |-> "confirmations", key |-> "required_confs"],
                 [op |-> "return transaction_config"] >>]

\* lines 246-361: get_transaction_config(args)
generate_get_transaction_config ==
    [name |-> "get_transaction_config",
     params |-> << [name |-> "args"] >>,
     body |-> << [op |-> "signer = network.accounts.load(args.sender, args.password)"],
                 [op |-> "transaction_config = {from: signer}"],
                 [op |-> "if args.flag is not None: transaction_config[key] = args.flag",
                  flag |-> "gas_price", key |-> "gas_price"],
                 [op |-> "if args.flag is not None: transaction_config[key] = args.flag",
                  flag |-> "max_fee_per_gas", key |-> "max_fee"],
                 [op |-> "if args.flag is not None: transaction_config[key] = args.flag",
                  flag |-> "max_priority_fee_per_gas", key |-> "priority_fee"],
                 [op |-> "if args.flag is not None: transaction_config[key] = args.flag",
                  flag |-> "confirmations", key |-> "required_confs"],
                 [op |-> "if args.flag is not None: transaction_config[key] = args.flag",
                  flag |-> "nonce", key |-> "nonce"],
                 [op |-> "return transaction_config"] >>]

\* One parser.add_argument(option, required=, type=, default=, action=).
Flag(option, dest, required, type, default, action) ==
    [option |-> option, dest |-> dest, required |-> required, type |-> type,
     default |-> default, action |-> action]

\* Mutant: the "if not transact" block does not return.
add_default_arguments_without_return(transact) ==
    << Flag("--network", "network", TRUE, None, None, "store"),
       Flag("--address", "address", FALSE, None, None, "store") >>
    \o (IF ~transact
        THEN << Flag("--block-number", "block_number", FALSE, "int", None, "store") >>
        ELSE << >>)
    \o << Flag("--sender", "sender", TRUE, None, None, "store"),
          Flag("--password", "password", FALSE, None, None, "store"),
          Flag("--gas-price", "gas_price", FALSE, None, None, "store"),
          Flag("--max-fee-per-gas", "max_fee_per_gas", FALSE, None, None, "store"),
          Flag("--max-priority-fee-per-gas", "max_priority_fee_per_gas", FALSE, None,
               None, "store"),
          Flag("--confirmations", "confirmations", FALSE, "int", None, "store"),
          Flag("--nonce", "nonce", FALSE, "int", None, "store"),
          Flag("--value", "value", FALSE, None, None, "store"),
          Flag("--verbose", "verbose", FALSE, None, "False", "store_true") >>

\* lines 631-707: what add_default_arguments(parser, transact) registers
add_default_arguments(transact) ==
    << Flag("--network", "network", TRUE, None, None, "store"),
       Flag("--address", "address", FALSE, None, None, "store") >>
    \o IF ~transact
       THEN << Flag("--block-number", "block_number", FALSE, "int", None, "store") >>
       ELSE << Flag("--sender", "sender", TRUE, None, None, "store"),
               Flag("--password", "password", FALSE, None, None, "store"),
               Flag("--gas-price", "gas_price", FALSE, None, None, "store"),
               Flag("--max-fee-per-gas", "max_fee_per_gas", FALSE, None, None, "store"),
               Flag("--max-priority-fee-per-gas", "max_priority_fee_per_gas", FALSE, None,
                    None, "store"),
               Flag("--confirmations", "confirmations", FALSE, "int", None, "store"),
               Flag("--nonce", "nonce", FALSE, "int", None, "store"),
               Flag("--value", "value", FALSE, None, None, "store"),
               Flag("--verbose", "verbose", FALSE, None, "False", "store_true") >>

\* The keyword arguments method=args.<args> of a handler's call, in ABI order.
CallKeywords(spec) == [i \in 1..Len(spec.inputs) |-> spec.inputs[i].method]
CallAttributes(spec) == [i \in 1..Len(spec.inputs) |-> spec.inputs[i].args]

\* lines 364-457: handle_deploy(args)
generate_deploy_handler(constructor_abi) ==
    LET spec == function_spec(WithName(constructor_abi, << "deploy" >>))
    IN  [name |-> "handle_" \o spec.method,
         params |-> << [name |-> "args"] >>,
         body |-> << [op |-> "network.connect(args.network)"],
                     [op |-> "transaction_config = get_transaction_config(args)"],
                     [op |-> "contract = ContractName(None)"],
                     [op |-> "result = contract.method", method |-> spec.method,
                      keywords |-> CallKeywords(spec) \o << "transaction_config" >>,
                      attributes |-> CallAttributes(spec) \o << "transaction_config" >>],
                     [op |-> "print(result)"],
                     [op |-> "if args.verbose: print(result.info())"] >>]

\* lines 460-515: handle_verify_contract(args)
generate_verify_contract_handler ==
    [name |-> "handle_verify_contract",
     params |-> << [name |-> "args"] >>,
     body |-> << [op |-> "network.connect(args.network)"],
                 [op |-> "contract = ContractName(args.address)"],
                 [op |-> "result = contract.method", method |-> "verify_contract",
                  keywords |-> << >>, attributes |-> << >>],
                 [op |-> "print(result)"] >>]

\* lines 541-544
requires_transaction(function_abi) == function_abi.stateMutability # "view"

\* Mutant: the result is printed before the method is called.
generate_cli_handler_print_first(function_abi) ==
    LET spec == function_spec(function_abi)
    IN  [name |-> "handle_" \o spec.method,
         params |-> << [name |-> "args"] >>,
         body |->
            << [op |-> "network.connect(args.network)"],
               [op |-> "contract = ContractName(args.address)"],
               [op |-> "print(result)"] >>
            \o (IF requires_transaction(function_abi)
                THEN << [op |-> "transaction_config = get_transaction_config(args)"] >>
                ELSE << >>)
            \o << [op |-> "result = contract.method", method |-> spec.method,
                   keywords |-> CallKeywords(spec)
                      \o (IF requires_transaction(function_abi)
                          THEN << "transaction_config" >> ELSE << "block_number" >>),
                   attributes |-> CallAttributes(spec)
                      \o (IF requires_transaction(function_abi)
                          THEN << "transaction_config" >> ELSE << "block_number" >>)] >>
            \o (IF requires_transaction(function_abi)
                THEN << [op |-> "if args.verbose: print(result.info())"] >>
                ELSE << >>)]

\* lines 518-628: handle_<method>(args); function_abi["stateMutability"] is
\* read unguarded, see CliGenerationRaises.
generate_cli_handler(function_abi) ==
    LET spec == function_spec(function_abi)
    IN  [name |-> "handle_" \o spec.method,
         params |-> << [name |-> "args"] >>,
         body |->
            << [op |-> "network.connect(args.network)"],
               [op |-> "contract = ContractName(args.address)"] >>
            \o (IF requires_transaction(function_abi)
                THEN << [op |-> "transaction_config = get_transaction_config(args)"] >>
                ELSE << >>)
            \o << [op |-> "result = contract.method", method |-> spec.method,
                   keywords |-> CallKeywords(spec)
                      \o (IF requires_transaction(function_abi)
                          THEN << "transaction_config" >> ELSE << "block_number" >>),
                   attributes |-> CallAttributes(spec)
                      \o (IF requires_transaction(function_abi)
                          THEN << "transaction_config" >> ELSE << "block_number" >>)],
                  [op |-> "print(result)"] >>
            \o (IF requires_transaction(function_abi)
                THEN << [op |-> "if args.verbose: print(result.info())"] >>
                ELSE << >>)]

\* lines 730-735
verify_contract_spec ==
    [method |-> "verify_contract", cli |-> "verify-contract", transact |-> FALSE,
     inputs |-> << >>]

\* lines 756-817: the add_argument call of one input
InputFlag(param) == Flag(param.cli, param.args, TRUE, None, None, "store")

\* lines 740-825: the subcommand of one spec
Subcommand(spec) ==
    [parser |-> spec.method \o "_parser",
     name |-> spec.cli,
     flags |-> add_default_arguments(spec.transact)
                  \o [i \in 1..Len(spec.inputs) |-> InputFlag(spec.inputs[i])],
     func |-> "handle_" \o spec.method]

\* lines 726-728: the constructor entry, named "deploy" in place.
deploy_constructor(abi_list) ==
    IF get_constructor(abi_list) = 0
    THEN WithName(DefaultConstructor, << "deploy" >>)
    ELSE WithName(abi_list[get_constructor(abi_list)], << "deploy" >>)

\* lines 710-840: the subcommands generate_cli() adds
generate_cli_generator(abi_list) ==
    LET specs == << function_spec(deploy_constructor(abi_list)), verify_contract_spec >>
                 \o [i \in 1..Len(FunctionEntries(abi_list)) |->
                        function_spec(FunctionEntries(abi_list)[i])]
    IN  [i \in 1..Len(specs) |-> Subcommand(specs[i])]

\* The entries lines 896-903 make handlers for.
HandledEntries(abi_list) ==
    SelectSeq(abi_list, LAMBDA e : Has(e, "type") /\ e.type = "function" /\ Has(e, "name"))

\* function_abi["stateMutability"] at line 543 raises KeyError.
CliGenerationRaises(abi_list) ==
    \E i \in 1..Len(HandledEntries(abi_list)) :
        ~Has(HandledEntries(abi_list)[i], "stateMutability")

\* lines 869-908: generate_brownie_cli
generate_brownie_cli(abi_list) ==
    [handlers |->
        << generate_get_transaction_config,
           generate_deploy_handler(
               IF get_constructor(abi_list) = 0 THEN DefaultConstructor
               ELSE abi_list[get_constructor(abi_list)]),
           generate_verify_contract_handler >>
        \o [i \in 1..Len(HandledEntries(abi_list)) |->
               generate_cli_handler(HandledEntries(abi_list)[i])],
     subcommands |-> generate_cli_generator(abi_list)]

-----------------------------------------------------------------------------
(* Running generated code.  A run has the instance's fields, the collaborator
   calls made so far, and what ended it: an exception or a return value. *)

\* Attribute lookup: of several definitions of one name the last one stands.
LastNamed(function_defs, name) ==
    function_defs[CHOOSE i \in 1..Len(function_defs) :
        /\ function_defs[i].name = name
        /\ \A j \in (i + 1)..Len(function_defs) : function_defs[j].name # name]

ClassFunction(name) == LastNamed(contract_class, name)
CliFunction(name) == LastNamed(cli.handlers, name)

Traced(st, label) == [st EXCEPT !.trace = Append(@, label)]

\* The keyword arguments a call may pass and must pass to a FunctionDef.
Accepted(function_def) ==
    { function_def.params[i].name : i \in 1..Len(function_def.params) } \ { "self" }
Required(function_def) ==
    { function_def.params[i].name :
        i \in { j \in 1..Len(function_def.params) : ~Has(function_def.params[j], "default") } }
    \ { "self" }

Handle(address) == "Contract@" \o address

Raise(st, error) == [st EXCEPT !.raised = error]
Return(st, value) == [st EXCEPT !.returned = value]
Collaborator(st, call) == [st EXCEPT !.calls = Append(@, call)]

RECURSIVE Exec(_, _, _)

\* One statement of a generated method; env holds the arguments of the call
\* and what the collaborators answer.
Step(stmt, st, env) ==
    CASE stmt.op = "self.contract_name = contract_name" -> st
      [] stmt.op = "self.address = contract_address" ->
            [st EXCEPT !.address = env.contract_address]
      [] stmt.op = "self.contract = None" -> [st EXCEPT !.contract = None]
      [] stmt.op = "self.abi = get_abi_json" -> Collaborator(st, "get_abi_json")
      [] stmt.op = "if self.address is not None: self.contract = Contract.from_abi" ->
            IF st.address # None
            THEN [Collaborator(st, "Contract.from_abi") EXCEPT !.contract = Handle(st.address)]
            ELSE st
      [] stmt.op = "self.assert_contract_is_instantiated()" ->
            \* the callee's exception propagates, its return value is dropped
            [Exec(ClassFunction("assert_contract_is_instantiated").body, st, env)
                EXCEPT !.returned = st.returned]
      [] stmt.op = "if self.contract is None: raise Exception" ->
            IF st.contract = None
            THEN Raise(st, "contract has not been instantiated")
            ELSE st
      [] stmt.op = "contract_class = contract_from_build" ->
            Collaborator(st, "contract_from_build")
      [] stmt.op = "deployed_contract = contract_class.deploy" ->
            IF env.fails
            THEN Raise(Collaborator(st, "contract_class.deploy"), "DeploymentFailure")
            ELSE [Collaborator(st, "contract_class.deploy")
                     EXCEPT !.deployed_contract = env.deployed_address]
      [] stmt.op = "self.address = deployed_contract.address" ->
            [st EXCEPT !.address = st.deployed_contract]
      [] stmt.op = "self.contract = deployed_contract" ->
            [st EXCEPT !.contract = Handle(st.deployed_contract)]
      [] stmt.op = "return deployed_contract.tx" -> Return(st, "tx")
      [] stmt.op = "contract_class.publish_source" ->
            Collaborator(st, "contract_class.publish_source")
      [] stmt.op = "network.connect(args.network)" ->
            Collaborator(Traced(st, "network.connect"), "network.connect")
      [] stmt.op = "contract = ContractName(args.address)" ->
            Exec(ClassFunction("__init__").body, Traced(st, "ContractName"),
                 [env EXCEPT !.contract_address = st.args["address"]])
      [] stmt.op = "contract = ContractName(None)" ->
            Exec(ClassFunction("__init__").body, Traced(st, "ContractName"),
                 [env EXCEPT !.contract_address = None])
      [] stmt.op = "transaction_config = get_transaction_config(args)" ->
            [Exec(CliFunction("get_transaction_config").body,
                  Traced(st, "get_transaction_config"), env)
                EXCEPT !.returned = None]
      [] stmt.op = "signer = network.accounts.load(args.sender, args.password)" ->
            IF ~Has(st.args, "sender") \/ ~Has(st.args, "password")
            THEN Raise(st, "AttributeError")
            ELSE [Collaborator(st, "network.accounts.load")
                     EXCEPT !.signer = "account:" \o st.args["sender"]]
      [] stmt.op = "transaction_config = {from: signer}" ->
            [st EXCEPT !.transaction_config = ("from" :> st.signer)]
      [] stmt.op = "if args.flag is not None: transaction_config[key] = args.flag" ->
            IF ~Has(st.args, stmt.flag)
            THEN Raise(st, "AttributeError")
            ELSE IF st.args[stmt.flag] # None
            THEN [st EXCEPT !.transaction_config = (stmt.key :> st.args[stmt.flag]) @@ @]
            ELSE st
      [] stmt.op = "return transaction_config" -> Return(st, "transaction_config")
      [] stmt.op = "result = contract.method" ->
            LET callee == ClassFunction(stmt.method)
                passed == { stmt.keywords[i] : i \in 1..Len(stmt.keywords) }
                read == { stmt.attributes[i] : i \in 1..Len(stmt.attributes) }
                           \ { "transaction_config" }
            IN  IF ~(read \subseteq DOMAIN st.args)
                THEN Raise(st, "AttributeError")
                ELSE IF ~(passed \subseteq Accepted(callee))
                        \/ ~(Required(callee) \subseteq passed)
                THEN Raise(Traced(st, "contract." \o stmt.method), "TypeError")
                ELSE LET run == Exec(callee.body, Traced(st, "contract." \o stmt.method), env)
                     IN  [run EXCEPT !.result = run.returned, !.returned = None]
      [] stmt.op = "print(result)" -> Traced(st, "print(result)")
      [] stmt.op = "if args.verbose: print(result.info())" ->
            IF ~Has(st.args, "verbose")
            THEN Raise(st, "AttributeError")
            ELSE IF st.args["verbose"] = "True"
            THEN Traced(st, "print(result.info())")
            ELSE st
      [] stmt.op = "return self.contract.function" ->
            IF st.contract = None
            THEN Raise(st, "AttributeError")
            ELSE IF env.fails
            THEN Raise(Collaborator(st, "transact"), "CallRevert")
            ELSE Return(Collaborator(st, "transact"), "tx")
      [] stmt.op = "return self.contract.function.call" ->
            IF st.contract = None
            THEN Raise(st, "AttributeError")
            ELSE IF env.fails
            THEN Raise(Collaborator(st, "call"), "CallRevert")
            ELSE Return(Collaborator(st, "call"), "value")

Exec(body, st, env) ==
    IF body = << >> \/ st.raised # None \/ st.returned # None
    THEN st
    ELSE Exec(Tail(body), Step(Head(body), st, env), env)

\* The locals and fields at the start of a run.
NewRun(address, contract, args) ==
    [address |-> address, contract |-> contract, calls |-> << >>, trace |-> << >>,
     raised |-> None, returned |-> None, deployed_contract |-> None,
     args |-> args, signer |-> None, transaction_config |-> None, result |-> None]

\* The run of one method of the instance.
RunMethod(function_def, env) ==
    Exec(function_def.body, NewRun(self_address, self_contract, << >>), env)

Addresses == { "0xA", "0xB" }
DeployedAddress == "0xD"

Env(contract_address, fails) ==
    [contract_address |-> contract_address, fails |-> fails,
     deployed_address |-> DeployedAddress]

\* The instance and the caller after a method ran.
AfterRun(name, finished) ==
    \E run \in { finished } :
        /\ self_address' = run.address
        /\ self_contract' = run.contract
        /\ outcome' = [method |-> name, raised |-> run.raised, returned |-> run.returned,
                       calls |-> run.calls, trace |-> run.trace, args |-> run.args,
                       transaction_config |-> run.transaction_config]

\* generate_brownie_contract_class(abi, contract_name)
brownie_generate_class ==
    /\ brownie_pc = "start"
    /\ contract_class' = generate_brownie_contract_class(brownie_abi)
    /\ brownie_abi' =
          IF get_constructor(brownie_abi) = 0 THEN brownie_abi
          ELSE [brownie_abi EXCEPT ![get_constructor(brownie_abi)] =
                   named_constructor(brownie_abi)]
    /\ brownie_pc' = "generated"
    /\ UNCHANGED << cli, self_address, self_contract, outcome >>
    /\ UNCHANGED << interface_vars, request_vars, argument_vars >>

\* instance = ContractName(contract_address)
new_instance(contract_address) ==
    /\ brownie_pc \in { "generated", "instance" }
    /\ brownie_pc' = "instance"
    /\ AfterRun("__init__", RunMethod(ClassFunction("__init__"), Env(contract_address, FALSE)))
    /\ UNCHANGED << brownie_abi, contract_class, cli >>
    /\ UNCHANGED << interface_vars, request_vars, argument_vars >>

\* instance.deploy(..., transaction_config)
call_deploy(fails) ==
    /\ brownie_pc = "instance"
    /\ AfterRun("deploy", RunMethod(contract_class[DeployAt], Env(None, fails)))
    /\ UNCHANGED << brownie_abi, brownie_pc, contract_class, cli >>
    /\ UNCHANGED << interface_vars, request_vars, argument_vars >>

\* instance.verify_contract()
call_verify_contract ==
    /\ brownie_pc = "instance"
    /\ AfterRun("verify_contract", RunMethod(ClassFunction("verify_contract"), Env(None, FALSE)))
    /\ UNCHANGED << brownie_abi, brownie_pc, contract_class, cli >>
    /\ UNCHANGED << interface_vars, request_vars, argument_vars >>

\* instance.<method>(...), the method generated for the i-th ABI function
call_function(i, fails) ==
    /\ brownie_pc = "instance"
    /\ i \in FirstFunctionAt..Len(contract_class)
    /\ AfterRun(contract_class[i].name,
                RunMethod(ClassFunction(contract_class[i].name), Env(None, fails)))
    /\ UNCHANGED << brownie_abi, brownie_pc, contract_class, cli >>
    /\ UNCHANGED << interface_vars, request_vars, argument_vars >>

\* generate_brownie_cli(abi, contract_name), after the class (lines 949-954)
brownie_generate_cli ==
    /\ brownie_pc = "generated"
    /\ IF CliGenerationRaises(brownie_abi)
       THEN /\ brownie_pc' = "raised"
            /\ UNCHANGED << brownie_abi, cli >>
       ELSE /\ brownie_pc' = "cli"
            /\ cli' = generate_brownie_cli(brownie_abi)
            /\ brownie_abi' =
                  IF get_constructor(brownie_abi) = 0 THEN brownie_abi
                  ELSE [brownie_abi EXCEPT ![get_constructor(brownie_abi)] =
                           deploy_constructor(brownie_abi)]
    /\ UNCHANGED << contract_class, self_address, self_contract, outcome >>
    /\ UNCHANGED << interface_vars, request_vars, argument_vars >>

\* Most optional flags on one command line, besides --address and --sender.
MaxSuppliedFlags == 2

FlagValues == { "0", "7" }

Dests(flags) == { flags[i].dest : i \in 1..Len(flags) }
FlagOf(flags, dest) == flags[CHOOSE i \in 1..Len(flags) : flags[i].dest = dest]

\* The command lines tried on a subcommand: the network and the function's
\* inputs are given, --address and --sender are given or not, and up to
\* MaxSuppliedFlags of the other optional flags are given.
CommandLines(flags) ==
    LET given == { d \in Dests(flags) : FlagOf(flags, d).required /\ d # "sender" }
        either == Dests(flags) \cap { "address", "sender" }
        optional == Dests(flags) \ (given \cup either)
    IN  UNION { { [d \in given \cup e \cup o |-> IF d \in o THEN v[d] ELSE "<" \o d \o ">"] :
                    e \in SUBSET either, v \in [o -> FlagValues] } :
                  o \in { x \in SUBSET optional : Cardinality(x) <= MaxSuppliedFlags } }

\* argparse: a required flag that is not given ends the program.
ParseError(flags, supplied) ==
    \E d \in Dests(flags) : FlagOf(flags, d).required /\ d \notin DOMAIN supplied

\* argparse: the Namespace of a command line.
parse_args(flags, supplied) ==
    [d \in Dests(flags) |->
        IF d \in DOMAIN supplied
        THEN IF FlagOf(flags, d).action = "store_true" THEN "True"
             ELSE IF FlagOf(flags, d).type = "int" THEN "int:" \o supplied[d]
             ELSE supplied[d]
        ELSE FlagOf(flags, d).default]

\* main(): args = parser.parse_args(); args.func(args), on the k-th subcommand;
\* a process runs one command line.
run_handler(k, supplied, fails) ==
    /\ brownie_pc = "cli"
    /\ outcome = NoOutcome
    /\ k \in 1..Len(cli.subcommands)
    /\ DOMAIN supplied \subseteq Dests(cli.subcommands[k].flags)
    /\ IF ParseError(cli.subcommands[k].flags, supplied)
       THEN /\ outcome' = [NoOutcome EXCEPT !.method = cli.subcommands[k].func,
                                            !.raised = "SystemExit"]
            /\ UNCHANGED << self_address, self_contract >>
       ELSE AfterRun(cli.subcommands[k].func,
                     Exec(CliFunction(cli.subcommands[k].func).body,
                          NewRun(None, None,
                                 parse_args(cli.subcommands[k].flags, supplied)),
                          Env(None, fails)))
    /\ UNCHANGED << brownie_abi, brownie_pc, contract_class, cli >>
    /\ UNCHANGED << interface_vars, request_vars, argument_vars >>

BrownieInit ==
    /\ InterfaceIdle
    /\ RequestsIdle
    /\ ArgumentsIdle
    /\ brownie_abi \in BrownieAbis
    /\ brownie_pc = "start"
    /\ contract_class = << >>
    /\ cli = NoCli
    /\ self_address = None
    /\ self_contract = None
    /\ outcome = NoOutcome

BrownieNext ==
    \/ brownie_generate_class
    \/ \E a \in Addresses \cup { None } : new_instance(a)
    \/ \E fails \in BOOLEAN : call_deploy(fails)
    \/ call_verify_contract
    \/ \E i \in 1..(FirstFunctionAt + MaxFunctions), fails \in BOOLEAN : call_function(i, fails)

SpecBrownie == BrownieInit /\ [][BrownieNext]_vars

\* The ABIs the CLI is generated for and run on.
CliAbis ==
    { << ConstructorEntry, f >> : f \in BrownieFunctions }
    \cup { << BalanceOf, Fn("g", << >>, << >>, "payable") >> }

CliInit ==
    /\ InterfaceIdle
    /\ RequestsIdle
    /\ ArgumentsIdle
    /\ brownie_abi \in CliAbis
    /\ brownie_pc = "start"
    /\ contract_class = << >>
    /\ cli = NoCli
    /\ self_address = None
    /\ self_contract = None
    /\ outcome = NoOutcome

CliNext ==
    \/ brownie_generate_class
    \/ brownie_generate_cli
    \/ /\ outcome = NoOutcome
       /\ \E k \in 1..Len(cli.subcommands), fails \in BOOLEAN :
             \E supplied \in CommandLines(cli.subcommands[k].flags) :
                 run_handler(k, supplied, fails)

SpecCli == CliInit /\ [][CliNext]_vars

-----------------------------------------------------------------------------
(* Concurrent requests.  Each request is one call of
   generate_brownie_interface(abi, ..., cli=True) in a thread of its own; the
   ABI lists live on a heap of objects the callers own, and a request holds a
   reference to one of them.  A step is a stretch of the call between two
   accesses of the constructor entry's "name" field, the only field of an
   ABI object the generators write. *)

\* Number of concurrent requests.
MaxRequests == 2

Requests == 1..MaxRequests

\* The ABIs of the requests.
RequestAbis ==
    { << ConstructorEntry, BalanceOf >>,
      << ConstructorEntry, Fn("g", << >>, << >>, "payable") >>,
      << BalanceOf >> }

\* The locals of a request that has not started.
NewRequest(abi_ref, given) ==
    [abi_ref |-> abi_ref, given |-> given, pc |-> "called",
     class |-> << >>, handlers |-> << >>, constructor_spec |-> None,
     subcommands |-> << >>, artifact |-> None]

\* The constructor entry a request sees: the entry of its ABI object as it is
\* now, or a default constructor of its own that it named itself.
constructor_seen(r, own_name) ==
    LET abi_list == heap[requests[r].abi_ref]
    IN  IF get_constructor(abi_list) = 0
        THEN WithName(DefaultConstructor, own_name)
        ELSE abi_list[get_constructor(abi_list)]

\* entry["name"] = name on the constructor entry of the request's ABI object.
name_constructor(r, name) ==
    LET o == requests[r].abi_ref
    IN  heap' = IF get_constructor(heap[o]) = 0 THEN heap
                ELSE [heap EXCEPT ![o][get_constructor(heap[o])] = WithName(@, name)]

Goto(r, from, to) ==
    /\ requests[r].pc = from
    /\ requests' = [requests EXCEPT ![r].pc = to]

\* The subcommands of lines 737-825, for a constructor spec made at line 728.
generate_cli_subcommands(constructor_spec, abi_list) ==
    LET specs == << constructor_spec, verify_contract_spec >>
                 \o [i \in 1..Len(FunctionEntries(abi_list)) |->
                        function_spec(FunctionEntries(abi_list)[i])]
    IN  [i \in 1..Len(specs) |-> Subcommand(specs[i])]

\* lines 78-79
class_name_constructor(r) ==
    /\ Goto(r, "called", "class_named")
    /\ name_constructor(r, << "constructor" >>)
    /\ UNCHANGED << interface_vars, brownie_vars, argument_vars >>

\* lines 81-96
class_build(r) ==
    /\ requests[r].pc = "class_named"
    /\ requests' = [requests EXCEPT
          ![r].pc = "class_built",
          ![r].class =
              << class_constructor,
                 generate_brownie_constructor_function(
                     constructor_seen(r, << "constructor" >>)),
                 generate_assert_contract_is_instantiated,
                 generate_verify_contract >>
              \o [i \in 1..Len(FunctionEntries(heap[requests[r].abi_ref])) |->
                     generate_brownie_contract_function(
                         FunctionEntries(heap[requests[r].abi_ref])[i])]]
    /\ UNCHANGED heap
    /\ UNCHANGED << interface_vars, brownie_vars, argument_vars >>

\* lines 887-903: the handlers; the deploy handler names a copy (line 373)
cli_build_handlers(r) ==
    /\ requests[r].pc = "class_built"
    /\ requests' = [requests EXCEPT
          ![r].pc = "handlers_built",
          ![r].handlers = generate_brownie_cli(heap[requests[r].abi_ref]).handlers]
    /\ UNCHANGED heap
    /\ UNCHANGED << interface_vars, brownie_vars, argument_vars >>

\* lines 726-727
cli_name_constructor(r) ==
    /\ Goto(r, "handlers_built", "cli_named")
    /\ name_constructor(r, << "deploy" >>)
    /\ UNCHANGED << interface_vars, brownie_vars, argument_vars >>

\* line 728
cli_constructor_spec(r) ==
    /\ requests[r].pc = "cli_named"
    /\ requests' = [requests EXCEPT
          ![r].pc = "cli_spec",
          ![r].constructor_spec = function_spec(constructor_seen(r, << "deploy" >>))]
    /\ UNCHANGED heap
    /\ UNCHANGED << interface_vars, brownie_vars, argument_vars >>

\* lines 730-840
cli_build_subcommands(r) ==
    /\ requests[r].pc = "cli_spec"
    /\ requests' = [requests EXCEPT
          ![r].pc = "cli_built",
          ![r].subcommands =
              generate_cli_subcommands(requests[r].constructor_spec,
                                       heap[requests[r].abi_ref])]
    /\ UNCHANGED heap
    /\ UNCHANGED << interface_vars, brownie_vars, argument_vars >>

\* lines 949-978: the module of the class and the CLI functions
request_return(r) ==
    /\ requests[r].pc = "cli_built"
    /\ requests' = [requests EXCEPT
          ![r].pc = "returned",
          ![r].artifact = [class |-> requests[r].class,
                           cli |-> [handlers |-> requests[r].handlers,
                                    subcommands |-> requests[r].subcommands]]]
    /\ UNCHANGED heap
    /\ UNCHANGED << interface_vars, brownie_vars, argument_vars >>

\* Every caller has an ABI list object of its own and gives the request
\* that one or the first caller's.
RequestsInit ==
    /\ InterfaceIdle
    /\ BrownieIdle
    /\ ArgumentsIdle
    /\ \E given \in RequestAbis : heap = [o \in Requests |-> given]
    /\ \E refs \in [Requests -> Requests] :
          /\ \A r \in Requests : refs[r] \in { 1, r }
          /\ requests = [r \in Requests |-> NewRequest(refs[r], heap[refs[r]])]

RequestsNext ==
    \E r \in Requests :
        \/ class_name_constructor(r)
        \/ class_build(r)
        \/ cli_build_handlers(r)
        \/ cli_name_constructor(r)
        \/ cli_constructor_spec(r)
        \/ cli_build_subcommands(r)
        \/ request_return(r)

SpecRequests == RequestsInit /\ [][RequestsNext]_vars

-----------------------------------------------------------------------------
(* generate_cli_generator, lines 756-817: the add_argument call of each input
   of a spec.  A call is the sequence of its arguments, each with its keyword
   (None for the positional one) and its value. *)

\* Most inputs of one spec.
MaxInputs == 2

Arg(keyword, value) == [keyword |-> keyword, value |-> value]

\* param["type"], the annotation of the binding method's parameter.
ParamAnnotations == { "int", "str", "bool", "bytes", "tuple", "List" }

\* param["cli_type"], None when the spec assigns no converter.
ParamCliTypes == { None, "int", "eval" }

\* The input records of a spec, as far as lines 756-817 read them.
ParamSpecs ==
    { [cli |-> "--arg", raw_type |-> "raw", type |-> t, cli_type |-> c] :
        t \in ParamAnnotations, c \in ParamCliTypes }

\* lines 757-805: call_args
input_call_args(param) ==
    << Arg(None, param.cli), Arg("required", "True"),
       Arg("help", "Type: " \o param.raw_type) >>
    \o (IF param.cli_type # None THEN << Arg("type", param.cli_type) >> ELSE << >>)
    \o (IF param.type = "List" THEN << Arg("nargs", "+") >>
        ELSE IF param.type = "bool" THEN << Arg("type", "boolean_argument_type") >>
        ELSE IF param.type = "bytes" THEN << Arg("type", "bytes_argument_type") >>
        ELSE IF param.type = "tuple" THEN << Arg("type", "eval") >>
        ELSE << >>)

\* lines 756-817: one turn of "for param in spec['inputs']"
add_input_argument ==
    /\ Len(subparser_statements) < Len(spec_inputs)
    /\ subparser_statements' =
          Append(subparser_statements,
                 input_call_args(spec_inputs[Len(subparser_statements) + 1]))
    /\ UNCHANGED spec_inputs
    /\ UNCHANGED << interface_vars, brownie_vars, request_vars >>

ArgumentsInit ==
    /\ InterfaceIdle
    /\ BrownieIdle
    /\ RequestsIdle
    /\ spec_inputs \in SeqsUpTo(ParamSpecs, MaxInputs) \ { << >> }
    /\ subparser_statements = << >>

ArgumentsNext == add_input_argument

SpecArguments == ArgumentsInit /\ [][ArgumentsNext]_vars

-----------------------------------------------------------------------------
(* Reading a generated interface body back: the declarations of a body, and
   the parts of one declaration.  These read the emitted text only. *)

FirstIndex(s, c) ==
    IF \E i \in 1..Len(s) : s[i] = c
    THEN CHOOSE i \in 1..Len(s) : s[i] = c /\ \A j \in 1..(i - 1) : s[j] # c
    ELSE 0

RECURSIVE SplitOn(_, _)
SplitOn(s, c) ==
    LET i == FirstIndex(s, c)
    IN  IF i = 0 THEN << s >>
        ELSE << SubSeq(s, 1, i - 1) >> \o SplitOn(SubSeq(s, i + 1, Len(s)), c)

NonEmpty(s) == s # << >>

\* The words of a text: its maximal runs of lexemes other than " ".
Words(text) == SelectSeq(SplitOn(text, " "), NonEmpty)

\* The non-blank lines of a body, each without its leading tab.
Declarations(body) ==
    LET lines == SelectSeq(SplitOn(body, "\n"), NonEmpty)
    IN  [i \in 1..Len(lines) |->
            IF lines[i][1] = "\t" THEN Tail(lines[i]) ELSE lines[i]]

DeclKind(d) == d[1]
DeclName(d) == << d[3] >>

\* The texts of a comma-separated list.
ListItems(text) == IF text = << >> THEN << >> ELSE SplitOn(text, ",")

\* The parameters between the first "(" and the first ")".
DeclInputs(d) == ListItems(SubSeq(d, FirstIndex(d, "(") + 1, FirstIndex(d, ")") - 1))

HasReturns(d) == FirstIndex(d, "returns") # 0

\* The parameters of the returns clause: "returns (" ... ")" before the ";".
DeclOutputs(d) ==
    IF HasReturns(d)
    THEN ListItems(SubSeq(d, FirstIndex(d, "returns") + 3, Len(d) - 2))
    ELSE << >>

\* The words between the parameter list and the returns clause (or the ";").
DeclModifiers(d) ==
    LET stop == IF HasReturns(d) THEN FirstIndex(d, "returns") - 1 ELSE Len(d) - 1
        ws == Words(SubSeq(d, FirstIndex(d, ")") + 1, stop))
    IN  [i \in 1..Len(ws) |-> ws[i][1]]

Range(s) == { s[i] : i \in 1..Len(s) }

\* One rendered parameter: its type is its first word, its qualifiers are the
\* words "memory" and "indexed", its name is whatever other word it has.
ParamType(p) == Words(p)[1]
ParamQualifiers(p) == { w \in Range(Words(p)) : w \in { << "memory" >>, << "indexed" >> } }
ParamNames(p) ==
    SelectSeq(Tail(Words(p)), LAMBDA w : w \notin { << "memory" >>, << "indexed" >> })

\* The name the ABI gives a parameter, << >> when it has none.
AbiParamName(arg) == IF Has(arg, "name") THEN arg.name ELSE << >>

\* The entries generate_interface is specified to render.
Renderable(e) ==
    /\ Has(e, "type") /\ Has(e, "name") /\ Has(e, "inputs")
    /\ \/ e.type = "event"
       \/ e.type = "function" /\ Has(e, "outputs")

Rendered == SelectSeq(abi, Renderable)

Returned == pc = "returned"

Decls == Declarations(interface_body)

StateMutability(e) == IF Has(e, "stateMutability") THEN e.stateMutability ELSE "<absent>"

\* The declarations of a returned body stand one to one for the rendered entries.
Paired == Returned /\ Len(Decls) = Len(Rendered)

FunctionDecls == { i \in 1..Len(Decls) : Paired /\ Rendered[i].type = "function" }
EventDecls == { i \in 1..Len(Decls) : Paired /\ Rendered[i].type = "event" }

-----------------------------------------------------------------------------
\* C1: every rendered function declaration is "external"; it carries the word
\* "view" exactly when stateMutability is "view", the word "payable" exactly
\* when it is "payable", and no mutability word for "nonpayable" and "pure".
C1_ExternalAndMutability ==
    Returned =>
        /\ Paired
        /\ \A i \in FunctionDecls :
              LET mods == DeclModifiers(Decls[i])
                  m == StateMutability(Rendered[i])
              IN  /\ Len(mods) >= 1 /\ mods[1] = "external"
                  /\ ("view" \in Range(mods)) <=> (m = "view")
                  /\ ("payable" \in Range(mods)) <=> (m = "payable")
                  /\ m \in { "nonpayable", "pure" } => mods = << "external" >>
                  /\ Len(mods) <= 2

C1_Witness ==
    /\ Returned /\ Len(abi) = 2 /\ Len(Decls) = 2
    /\ StateMutability(abi[1]) = "pure" /\ StateMutability(abi[2]) = "payable"
    /\ DeclModifiers(Decls[1]) = << "external" >>
    /\ DeclModifiers(Decls[2]) = << "external", "payable" >>

\* C2: a function parameter, input or output, carries "memory" if and only if
\* its ABI type is string, bytes or ends in "[]".
IsDynamicArray(t) == Len(t) >= 3 /\ t[Len(t) - 1] = "[" /\ t[Len(t)] = "]"
WantsMemory(t) == t = << "string" >> \/ t = << "bytes" >> \/ IsDynamicArray(t)

MemoryRule(params, args) ==
    /\ Len(params) = Len(args)
    /\ \A k \in 1..Len(params) :
          /\ ParamType(params[k]) = args[k].type
          /\ (<< "memory" >> \in ParamQualifiers(params[k])) <=> WantsMemory(args[k].type)
          /\ << "indexed" >> \notin ParamQualifiers(params[k])

C2_MemoryQualifier ==
    Returned =>
        /\ Paired
        /\ \A i \in FunctionDecls :
              /\ MemoryRule(DeclInputs(Decls[i]), Rendered[i].inputs)
              /\ MemoryRule(DeclOutputs(Decls[i]), Rendered[i].outputs)

C2_Witness ==
    /\ Returned /\ Len(abi) = 2 /\ Len(Decls) = 2
    /\ abi[1].type = "function" /\ abi[2].type = "function"
    /\ Len(abi[1].inputs) = 2 /\ abi[1].inputs[2].type = << "string" >>
    /\ << "memory" >> \in ParamQualifiers(DeclInputs(Decls[1])[2])
    /\ ParamQualifiers(DeclInputs(Decls[1])[1]) = { }
    /\ Len(abi[2].outputs) = 1 /\ abi[2].outputs[1].type = << "uint256", "[", "]" >>
    /\ << "memory" >> \in ParamQualifiers(DeclOutputs(Decls[2])[1])

\* C3: no outputs, no returns clause; n >= 1 outputs, the clause "returns (...)"
\* lists the n outputs in ABI order joined by ", "; an output whose name is
\* empty or missing is rendered without a name.
JoinedByCommaSpace(params) ==
    \A k \in 1..Len(params) :
        /\ params[k] # << >>
        /\ IF k = 1 THEN params[k][1] # " "
           ELSE Len(params[k]) >= 2 /\ params[k][1] = " " /\ params[k][2] # " "

C3_ReturnsClause ==
    Returned =>
        /\ Paired
        /\ \A i \in FunctionDecls :
              LET d == Decls[i]
                  outs == Rendered[i].outputs
                  r == FirstIndex(d, "returns")
              IN  IF outs = << >>
                  THEN /\ ~HasReturns(d)
                       /\ FirstIndex(SubSeq(d, FirstIndex(d, ")") + 1, Len(d)), "(") = 0
                  ELSE /\ HasReturns(d)
                       /\ SubSeq(d, r, r + 2) = << "returns", " ", "(" >>
                       /\ SubSeq(d, Len(d) - 1, Len(d)) = << ")", ";" >>
                       /\ Len(DeclOutputs(d)) = Len(outs)
                       /\ JoinedByCommaSpace(DeclOutputs(d))
                       /\ \A k \in 1..Len(outs) :
                             /\ ParamType(DeclOutputs(d)[k]) = outs[k].type
                             /\ ParamNames(DeclOutputs(d)[k]) =
                                   IF AbiParamName(outs[k]) = << >> THEN << >>
                                   ELSE << outs[k].name >>

C3_Witness ==
    /\ Returned /\ Len(abi) = 2 /\ Len(Decls) = 2
    /\ abi[1].type = "function" /\ abi[1].outputs = << >> /\ ~HasReturns(Decls[1])
    /\ abi[2].type = "function" /\ Len(abi[2].outputs) = 3
    /\ ~Has(abi[2].outputs[2], "name") \/ abi[2].outputs[2].name = << >>
    /\ Str(SubSeq(Decls[2], FirstIndex(Decls[2], "returns"), Len(Decls[2])))
          = "returns (uint256 x, string memory, address z);"

\* C4: an event's parameters appear in ABI order, each with "indexed" if and
\* only if the ABI marks it indexed (a missing field is not indexed); the
\* Transfer event is rendered as the text of Scenario C.
C4_EventParameters ==
    Returned =>
        /\ Paired
        /\ \A i \in EventDecls :
              LET d == Decls[i]
                  ins == Rendered[i].inputs
              IN  /\ DeclKind(d) = "event"
                  /\ Len(DeclInputs(d)) = Len(ins)
                  /\ \A k \in 1..Len(ins) :
                        /\ ParamType(DeclInputs(d)[k]) = ins[k].type
                        /\ ParamNames(DeclInputs(d)[k]) = << ins[k].name >>
                        /\ (<< "indexed" >> \in ParamQualifiers(DeclInputs(d)[k]))
                              <=> (Has(ins[k], "indexed") /\ ins[k].indexed)
                  /\ Rendered[i] = TransferEvent =>
                        Str(d) = "event Transfer(address indexed from, address indexed to, uint256 value);"

C4_Witness ==
    /\ Returned /\ Len(abi) = 2 /\ Len(Decls) = 2
    /\ abi[1] = TransferEvent
    /\ Str(Decls[1]) = "event Transfer(address indexed from, address indexed to, uint256 value);"
    /\ abi[2].type = "event" /\ Len(abi[2].inputs) = 2 /\ ~Has(abi[2].inputs[1], "indexed")
    /\ Str(Decls[2]) = "event Log(string msg, uint256[] indexed ids);"

\* C5: every entry that is no well-formed named function or event with
\* complete lists (kind constructor, fallback or receive, no name, no inputs
\* list, a function without outputs list, a parameter record lacking its name
\* or type) adds no declaration and never makes the generation fail.
WellFormedParameters(e) ==
    /\ \A k \in 1..Len(e.inputs) : Has(e.inputs[k], "type") /\ Has(e.inputs[k], "name")
    /\ e.type = "function" => \A k \in 1..Len(e.outputs) : Has(e.outputs[k], "type")

WellFormedEntry(e) == Renderable(e) /\ WellFormedParameters(e)

C5_IllFormedEntriesAreSkipped ==
    /\ pc # "raised"
    /\ Returned => Len(Decls) = Len(SelectSeq(abi, WellFormedEntry))

\* C6 as stated: one declaration per entry of kind function or event.
OfKindFunctionOrEvent(e) == Has(e, "type") /\ e.type \in { "function", "event" }

SameParameters(params, args) ==
    /\ Len(params) = Len(args)
    /\ \A k \in 1..Len(args) :
          /\ ParamType(params[k]) = args[k].type
          /\ ParamNames(params[k]) =
                IF AbiParamName(args[k]) = << >> THEN << >> ELSE << args[k].name >>

C7_BalanceOfScenario ==
    (Returned /\ abi = << BalanceOf >>) =>
        /\ Len(Decls) = 1
        /\ Str(Decls[1]) = "function balanceOf(address who) external view returns (uint256);"
        /\ Str(interface_body) =
              "\tfunction balanceOf(address who) external view returns (uint256);"

C7_Witness ==
    /\ Returned /\ abi = << BalanceOf >>
    /\ Str(interface_body_components[1]) =
          "function balanceOf(address who) external view returns (uint256);"

-----------------------------------------------------------------------------
(* Reading a generated class and a generated CLI back. *)

ReadMutabilities == { "pure", "view" }
WriteMutabilities == { "nonpayable", "payable" }

\* The statements of a FunctionDef, and the names of its parameters in order.
Ops(function_def) == { function_def.body[i].op : i \in 1..Len(function_def.body) }
ParamNamesOf(function_def) ==
    [i \in 1..Len(function_def.params) |-> function_def.params[i].name]
LastParam(function_def) == function_def.params[Len(function_def.params)]

InputNames(entry) == [i \in 1..Len(entry.inputs) |-> Str(entry.inputs[i].name)]

\* The methods that are to begin with the guard: verify_contract and the
\* per-function methods.
GuardedMethods ==
    { "verify_contract" }
    \cup { contract_class[i].name : i \in FirstFunctionAt..Len(contract_class) }

FunctionMethods == GuardedMethods \ { "verify_contract" }

GuardError == "contract has not been instantiated"

\* The ABI function entry a method name resolves to: the last one of that name.
EntryOfMethod(name) ==
    LET fs == FunctionEntries(brownie_abi)
    IN  fs[CHOOSE i \in 1..Len(fs) :
               /\ Str(fs[i].name) = name
               /\ \A j \in (i + 1)..Len(fs) : Str(fs[j].name) # name]

-----------------------------------------------------------------------------
\* C8: every per-function method and verify_contract begin with the
\* instantiation guard; called on an instance without a contract handle they
\* fail with the guard's error before any collaborator is invoked, and on an
\* instance with a handle the guard passes and the collaborator is reached.
C8_InstantiationGuard ==
    /\ contract_class # << >> =>
          \A name \in GuardedMethods :
              /\ ClassFunction(name).body # << >>
              /\ ClassFunction(name).body[1].op = "self.assert_contract_is_instantiated()"
    /\ outcome.method \in GuardedMethods =>
          IF self_contract = None
          THEN outcome.raised = GuardError /\ outcome.calls = << >>
          ELSE outcome.raised # GuardError /\ outcome.calls # << >>

\* A per-function method was called on an instance without a handle.
C8_Witness ==
    /\ brownie_pc = "instance"
    /\ outcome.method \in FunctionMethods
    /\ self_contract = None
    /\ outcome.raised = GuardError

-----------------------------------------------------------------------------
TakesBlockIdentifier(function_def, entry) ==
    /\ ParamNamesOf(function_def) = << "self" >> \o InputNames(entry) \o << "block_number" >>
    /\ Has(LastParam(function_def), "default")
    /\ LastParam(function_def).default = "latest"

TakesTransactionConfig(function_def, entry) ==
    /\ ParamNamesOf(function_def)
          = << "self" >> \o InputNames(entry) \o << "transaction_config" >>
    /\ ~Has(LastParam(function_def), "default")

NonMutatingCall(function_def) ==
    /\ "return self.contract.function.call" \in Ops(function_def)
    /\ "return self.contract.function" \notin Ops(function_def)

MutatingSubmission(function_def) ==
    /\ "return self.contract.function" \in Ops(function_def)
    /\ "return self.contract.function.call" \notin Ops(function_def)

\* C9: the stateMutability of an ABI function decides the call path of its
\* method: pure and view give the inputs plus block_number = "latest" and a
\* non-mutating call, nonpayable and payable give the inputs plus
\* transaction_config and a state-mutating submission, never both or neither;
\* a call on a bound instance reaches exactly that collaborator.
C9_MutabilityDeterminesCallPath ==
    /\ contract_class # << >> =>
          \A i \in 1..Len(FunctionEntries(brownie_abi)) :
              LET entry == FunctionEntries(brownie_abi)[i]
                  method == contract_class[FirstFunctionAt - 1 + i]
              IN  Has(entry, "stateMutability") =>
                    /\ method.name = Str(entry.name)
                    /\ entry.stateMutability \in ReadMutabilities =>
                          /\ TakesBlockIdentifier(method, entry)
                          /\ NonMutatingCall(method)
                    /\ entry.stateMutability \in WriteMutabilities =>
                          /\ TakesTransactionConfig(method, entry)
                          /\ MutatingSubmission(method)
    /\ (outcome.method \in FunctionMethods /\ self_contract # None) =>
          LET entry == EntryOfMethod(outcome.method)
          IN  Has(entry, "stateMutability") =>
                /\ entry.stateMutability \in ReadMutabilities =>
                      outcome.calls = << "call" >>
                /\ entry.stateMutability \in WriteMutabilities =>
                      outcome.calls = << "transact" >>

\* The class has a read and a write method, and the method of a pure
\* function was called on a bound instance.
C9_Witness ==
    /\ brownie_pc = "instance"
    /\ self_contract # None
    /\ outcome.method \in FunctionMethods
    /\ Has(EntryOfMethod(outcome.method), "stateMutability")
    /\ EntryOfMethod(outcome.method).stateMutability = "pure"
    /\ outcome.calls = << "call" >>
    /\ outcome.returned = "value"
    /\ \E i \in FirstFunctionAt..Len(contract_class) :
          MutatingSubmission(contract_class[i])

-----------------------------------------------------------------------------
\* The handlers and subcommands of the ABI's functions.
HandlerOf(entry) == CliFunction("handle_" \o Str(entry.name))

SubcommandOf(entry) ==
    cli.subcommands[CHOOSE k \in 1..Len(cli.subcommands) :
                       cli.subcommands[k].func = "handle_" \o Str(entry.name)]

CallsGetTransactionConfig(function_def) ==
    "transaction_config = get_transaction_config(args)" \in Ops(function_def)

RequiresSender(subcommand) ==
    \E i \in 1..Len(subcommand.flags) :
        subcommand.flags[i].dest = "sender" /\ subcommand.flags[i].required

\* C10: the handler of a view or pure function never calls
\* get_transaction_config and runs without one; the handler of a nonpayable
\* or payable function always calls it, and its configuration is made from
\* the required --sender flag.
C10_ReadHandlersNeedNoTransactionConfig ==
    brownie_pc = "cli" =>
        \A i \in 1..Len(HandledEntries(brownie_abi)) :
            LET entry == HandledEntries(brownie_abi)[i]
                ran == /\ outcome.method = HandlerOf(entry).name
                       /\ outcome.raised # "SystemExit"
            IN  /\ entry.stateMutability \in ReadMutabilities =>
                      /\ ~CallsGetTransactionConfig(HandlerOf(entry))
                      /\ ran => "get_transaction_config" \notin Range(outcome.trace)
                /\ entry.stateMutability \in WriteMutabilities =>
                      /\ CallsGetTransactionConfig(HandlerOf(entry))
                      /\ RequiresSender(SubcommandOf(entry))
                      /\ ran => /\ "get_transaction_config" \in Range(outcome.trace)
                                /\ outcome.transaction_config["from"]
                                      = "account:" \o outcome.args["sender"]

-----------------------------------------------------------------------------
\* A function entry without a recognized stateMutability.
UnclassifiedEntry(entry) ==
    ~Has(entry, "stateMutability")
    \/ entry.stateMutability \notin ReadMutabilities \cup WriteMutabilities

GenerationAttempted == brownie_pc \in { "cli", "raised" }

\* C11: a function entry whose stateMutability is missing or unrecognized is
\* a write function for every emitter: generation of the class and of the CLI
\* succeeds, the binding method takes transaction_config and submits, and the
\* CLI handler calls get_transaction_config.
C11_UnclassifiedEntriesAreWrites ==
    /\ contract_class # << >> =>
          \A i \in 1..Len(FunctionEntries(brownie_abi)) :
              UnclassifiedEntry(FunctionEntries(brownie_abi)[i]) =>
                  /\ TakesTransactionConfig(contract_class[FirstFunctionAt - 1 + i],
                                            FunctionEntries(brownie_abi)[i])
                  /\ MutatingSubmission(contract_class[FirstFunctionAt - 1 + i])
    /\ GenerationAttempted =>
          /\ brownie_pc = "cli"
          /\ \A i \in 1..Len(HandledEntries(brownie_abi)) :
                UnclassifiedEntry(HandledEntries(brownie_abi)[i]) =>
                    /\ CallsGetTransactionConfig(HandlerOf(HandledEntries(brownie_abi)[i]))
                    /\ RequiresSender(SubcommandOf(HandledEntries(brownie_abi)[i]))

-----------------------------------------------------------------------------
\* A run in which get_transaction_config was called on a Namespace of the
\* write flags.
Assembled ==
    /\ "get_transaction_config" \in Range(outcome.trace)
    /\ "sender" \in DOMAIN outcome.args

\* The optional flags of the claim and the keys they are to be stored under.
OptionKeys ==
    { << "gas_price", "gas_price" >>, << "max_fee_per_gas", "max_fee" >>,
      << "max_priority_fee_per_gas", "priority_fee" >>,
      << "confirmations", "required_confs" >>, << "nonce", "nonce" >> }

\* C12: the configuration get_transaction_config builds has the signer under
\* "from", and for each of gas price, max fee, priority fee, confirmations
\* and nonce it has the key exactly when the parsed flag is not None, with
\* the parsed value; no entry is None, and a supplied zero is stored.
C12_OnlySuppliedFlagsAreWritten ==
    Assembled =>
        /\ "from" \in DOMAIN outcome.transaction_config
        /\ outcome.transaction_config["from"] = "account:" \o outcome.args["sender"]
        /\ DOMAIN outcome.transaction_config
              \subseteq { "from" } \cup { fk[2] : fk \in OptionKeys }
        /\ \A fk \in OptionKeys :
              /\ fk[2] \in DOMAIN outcome.transaction_config
                    <=> outcome.args[fk[1]] # None
              /\ fk[2] \in DOMAIN outcome.transaction_config =>
                    outcome.transaction_config[fk[2]] = outcome.args[fk[1]]
        /\ \A key \in DOMAIN outcome.transaction_config :
              outcome.transaction_config[key] # None

\* --nonce 0 was given and --gas-price was not.
C12_Witness ==
    /\ Assembled
    /\ outcome.args["nonce"] = "int:0"
    /\ outcome.args["gas_price"] = None
    /\ DOMAIN outcome.transaction_config = { "from", "nonce" }
    /\ outcome.transaction_config["nonce"] = "int:0"

-----------------------------------------------------------------------------
\* The options of a subcommand, each with whether it is required.
Options(subcommand) ==
    { << subcommand.flags[i].option, subcommand.flags[i].required >> :
        i \in 1..Len(subcommand.flags) }

OptionNames(subcommand) == { o[1] : o \in Options(subcommand) }

SharedOptions == { << "--network", TRUE >>, << "--address", FALSE >> }

WriteOptions ==
    { << "--sender", TRUE >>, << "--password", FALSE >>, << "--gas-price", FALSE >>,
      << "--max-fee-per-gas", FALSE >>, << "--max-priority-fee-per-gas", FALSE >>,
      << "--confirmations", FALSE >>, << "--nonce", FALSE >>, << "--verbose", FALSE >> }

ReadOptions == { << "--block-number", FALSE >> }

HasWriteFlags(subcommand) ==
    /\ SharedOptions \cup WriteOptions \subseteq Options(subcommand)
    /\ "--block-number" \notin OptionNames(subcommand)

\* The flags besides those of the function's own inputs.
HasReadFlagsOnly(subcommand, entry) ==
    { o \in Options(subcommand) :
        \A i \in 1..Len(entry.inputs) : o[1] # "--" \o Str(entry.inputs[i].name) }
    = SharedOptions \cup ReadOptions

SubcommandsOf(entry) ==
    { k \in 1..Len(cli.subcommands) :
        cli.subcommands[k].func = "handle_" \o Str(entry.name) }

-----------------------------------------------------------------------------
\* The subcommand whose handler ran, and the binding method that belongs to it.
HandlerRan ==
    /\ brownie_pc = "cli"
    /\ outcome.method # None
    /\ outcome.raised # "SystemExit"

RanSubcommand ==
    CHOOSE k \in 1..Len(cli.subcommands) : cli.subcommands[k].func = outcome.method

EntryOfSubcommand(k) ==
    IF k = 1
    THEN IF get_constructor(brownie_abi) = 0 THEN DefaultConstructor
         ELSE brownie_abi[get_constructor(brownie_abi)]
    ELSE IF k = 2 THEN [inputs |-> << >>]
    ELSE FunctionEntries(brownie_abi)[k - 2]

MethodOfSubcommand(k) ==
    IF k = 1 THEN "deploy"
    ELSE IF k = 2 THEN "verify_contract"
    ELSE Str(FunctionEntries(brownie_abi)[k - 2].name)

ReadPath(k) ==
    \/ k = 2
    \/ k > 2 /\ FunctionEntries(brownie_abi)[k - 2].stateMutability \in ReadMutabilities

IsPrefix(s, t) == Len(s) <= Len(t) /\ s = SubSeq(t, 1, Len(s))

\* The steps of the claim in a trace; assembling the configuration is not one.
DispatchSteps(trace) == SelectSeq(trace, LAMBDA label : label # "get_transaction_config")

DispatchOrder(k) ==
    << "network.connect", "ContractName", "contract." \o MethodOfSubcommand(k),
       "print(result)", "print(result.info())" >>

\* The call statement of a handler.
CallOf(function_def) ==
    function_def.body[CHOOSE i \in 1..Len(function_def.body) :
                         function_def.body[i].op = "result = contract.method"]

-----------------------------------------------------------------------------
\* The method generated for the i-th function entry.
MethodOfEntry(i) == contract_class[FirstFunctionAt - 1 + i]

\* How many of the first i function entries have the raw name of the i-th.
Occurrence(i) ==
    Cardinality({ j \in 1..i :
        FunctionEntries(brownie_abi)[j].name = FunctionEntries(brownie_abi)[i].name })

\* C15: the method names generated for the functions of an ABI are pairwise
\* distinct, also for entries that share a raw name: the first occurrence in
\* ABI order keeps the plain name, the n-th gets the suffix _n.
C15_MethodNamesAreDistinct ==
    contract_class # << >> =>
        /\ \A i, j \in 1..Len(FunctionEntries(brownie_abi)) :
              i # j => MethodOfEntry(i).name # MethodOfEntry(j).name
        /\ \A i \in 1..Len(FunctionEntries(brownie_abi)) :
              MethodOfEntry(i).name =
                  IF Occurrence(i) = 1
                  THEN Str(FunctionEntries(brownie_abi)[i].name)
                  ELSE Str(FunctionEntries(brownie_abi)[i].name)
                          \o "_" \o ToString(Occurrence(i))

-----------------------------------------------------------------------------
\* C16: a deploy in which the collaborator fails raises the collaborator's
\* failure, returns nothing and leaves the instance's address and handle as
\* they were; a deploy that succeeds stores the deployed address and handle
\* and returns the transaction.
C16_FailedDeployLeavesInstance ==
    [][outcome'.method = "deploy" =>
          IF outcome'.raised = "DeploymentFailure"
          THEN /\ self_address' = self_address
               /\ self_contract' = self_contract
               /\ outcome'.returned = None
               /\ "contract_class.deploy" \in Range(outcome'.calls)
          ELSE /\ outcome'.raised = None
               /\ self_address' = DeployedAddress
               /\ self_contract' = Handle(DeployedAddress)
               /\ outcome'.returned = "tx"]_vars

\* deploy failed on an instance that was constructed with an address.
C16_Witness ==
    /\ brownie_pc = "instance"
    /\ outcome.method = "deploy"
    /\ outcome.raised = "DeploymentFailure"
    /\ self_address \in Addresses
    /\ self_contract = Handle(self_address)

-----------------------------------------------------------------------------
\* C17: in every state of an instance the handle is bound exactly when the
\* address is present, and bound to that address; __init__ calls the factory
\* exactly when it was given an address; and no call on an instance with a
\* bound handle leaves it without one.
C17_HandleIffAddress ==
    /\ [](/\ self_contract # None <=> self_address # None
          /\ self_contract # None => self_contract = Handle(self_address)
          /\ outcome.method = "__init__" =>
                ("Contract.from_abi" \in Range(outcome.calls) <=> self_address # None))
    /\ [][(self_contract # None /\ outcome'.method # "__init__") =>
              self_contract' # None]_vars

\* An instance constructed without an address, after a successful deploy and
\* a call of a function method.
C17_Witness ==
    /\ brownie_pc = "instance"
    /\ outcome.method \in FunctionMethods
    /\ self_address = DeployedAddress
    /\ self_contract = Handle(DeployedAddress)

-----------------------------------------------------------------------------
\* C18: the emitters only read the ABI: no step of generating the class or
\* the CLI changes a field of an entry of the caller's ABI list.
C18_EmittersOnlyReadTheAbi == [][brownie_abi' = brownie_abi]_vars

-----------------------------------------------------------------------------
\* What a request returns when it runs alone.
Alone(abi_list) ==
    [class |-> generate_brownie_contract_class(abi_list),
     cli |-> generate_brownie_cli(abi_list)]

\* C19: whatever the interleaving of the steps of the requests, a request
\* that returns returns the artifact it returns when it runs alone.
C19_InterleavedRequestsReturnTheSame ==
    \A r \in DOMAIN requests :
        requests[r].pc = "returned" => requests[r].artifact = Alone(requests[r].given)

-----------------------------------------------------------------------------
\* The type keywords of an add_argument call.
TypeKeywords(call_args) ==
    { i \in 1..Len(call_args) : call_args[i].keyword = "type" }

\* C20: every add_argument call generated for an input has at most one
\* "type" keyword, whatever type and cli_type its spec has.
C20_OneConverterPerArgument ==
    \A k \in 1..Len(subparser_statements) :
        Cardinality(TypeKeywords(subparser_statements[k])) <= 1

-----------------------------------------------------------------------------
\* The keywords the handler of an entry passes to the method, and the
\* parameters the method of that entry declares.
PassedKeywords(entry) == Range(CallOf(HandlerOf(entry)).keywords)
DeclaredParams(entry) == Accepted(ClassFunction(Str(entry.name)))

\* C21: for every ABI function the handler passes transaction_config exactly
\* when its method declares transaction_config, passes block_number exactly
\* when its method declares block_number, and passes no keyword the method
\* does not accept.
C21_HandlerAndMethodAgree ==
    brownie_pc = "cli" =>
        \A i \in 1..Len(HandledEntries(brownie_abi)) :
            LET entry == HandledEntries(brownie_abi)[i]
            IN  /\ "transaction_config" \in PassedKeywords(entry)
                      <=> "transaction_config" \in DeclaredParams(entry)
                /\ "block_number" \in PassedKeywords(entry)
                      <=> "block_number" \in DeclaredParams(entry)
                /\ PassedKeywords(entry) \subseteq DeclaredParams(entry)

-----------------------------------------------------------------------------
\* The keys of a configuration that C12 accounts for.
AccountedKeys == { "from" } \cup { fk[2] : fk \in OptionKeys }

\* C22: every optional transaction flag of a write subcommand is consumed by
\* get_transaction_config: a supplied gas price, max fee, max priority fee,
\* confirmations or nonce is in the configuration under its key, and a
\* supplied --value is in the configuration under a key of its own.
C22_EveryTransactionFlagIsConsumed ==
    Assembled =>
        /\ \A fk \in OptionKeys :
              outcome.args[fk[1]] # None =>
                  /\ fk[2] \in DOMAIN outcome.transaction_config
                  /\ outcome.transaction_config[fk[2]] = outcome.args[fk[1]]
        /\ outcome.args["value"] # None =>
              \E key \in DOMAIN outcome.transaction_config \ AccountedKeys :
                  outcome.transaction_config[key] = outcome.args["value"]

\* The rendering '<type> memory <name>' of a parameter of the ABI.
MemoryThenName(arg) == << arg.type, << "memory" >>, arg.name >>

\* Named parameters of the ABI whose type takes the memory qualifier keep
\* their position in the rendered list.
PositionRule(params, args) ==
    /\ Len(params) = Len(args)
    /\ \A k \in 1..Len(params) :
          WantsMemory(args[k].type) /\ AbiParamName(args[k]) # << >> =>
              Words(params[k]) = MemoryThenName(args[k])

\* C23: a named parameter whose type takes the memory qualifier is rendered
\* '<type> memory <name>' both as an input and as an output, so an input and
\* an output of the same type and name have the same text.
C23_QualifierPosition ==
    Returned =>
        /\ Paired
        /\ \A i \in FunctionDecls :
              /\ PositionRule(DeclInputs(Decls[i]), Rendered[i].inputs)
              /\ PositionRule(DeclOutputs(Decls[i]), Rendered[i].outputs)
====
